---- MODULE Spec2Model ----
(***************************************************************************)
(* Device inventory: the in-memory device repository                      *)
(* (src/src/repositories/memory.py) over the pydantic device models       *)
(* (src/src/models/device.py).                                             *)
(*                                                                         *)
(* Python values are represented as follows.                               *)
(*   str (hostname, site)  a tuple of one-character strings, so that       *)
(*                         stripping and length checks are computed        *)
(*   None                  the one-element tuple <<"NoneType">>            *)
(*   IPv4Address/IPv6Address  <<version, integer value>>                   *)
(*   the text of an address, and str(address): a Python str whose         *)
(*                         characters are never inspected one by one:      *)
(*                         the one-element tuple <<text>> as an input, and *)
(*                         the TLA+ string text as a key of the IP index   *)
(*   enum member           <<enum class, value>>                           *)
(*   UUID                  a natural number; uuid4() returns a fresh one   *)
(*   datetime              a natural number                                *)
(*   dict                  a function; its keys are its DOMAIN             *)
(***************************************************************************)
EXTENDS Integers, Sequences, FiniteSets, TLC

VARIABLES
    devices,         \* self._devices: dict[UUID, Device]
    hostname_index,  \* self._hostname_index: dict[str, UUID]
    ip_index,        \* self._ip_index: dict[str, UUID]
    next_uuid,       \* the number of UUIDs uuid4() has handed out, plus one
    clock,           \* the latest reading of datetime.now()
    ret,             \* how the latest call ended: what it returned or raised
    threads,         \* of each caller, the call it is in and how far it has got
    exclusive        \* the callers exclude one another: one call at a time

vars == <<devices, hostname_index, ip_index, next_uuid, clock, ret, threads, exclusive>>

store == <<devices, hostname_index, ip_index>>

-----------------------------------------------------------------------------
(* Bounds of the model *)

\* UUIDs are 1..MaxIds: at most MaxIds devices are ever created
MaxIds == 3

\* datetime.now() reads 0..MaxClock
MaxClock == 1

\* of these, callers that interleave their calls create at most
\* MaxConcurrentIds
MaxConcurrentIds == 2

UUIDs == 1..MaxIds

Times == 0..MaxClock

-----------------------------------------------------------------------------
(* Python values *)

None == <<"NoneType">>

Whitespace == {" ", "\t", "\n"}

RECURSIVE lstrip(_)
lstrip(s) == IF s # <<>> /\ Head(s) \in Whitespace THEN lstrip(Tail(s)) ELSE s

RECURSIVE rstrip(_)
rstrip(s) ==
    IF s # <<>> /\ s[Len(s)] \in Whitespace
    THEN rstrip(SubSeq(s, 1, Len(s) - 1))
    ELSE s

\* "str_strip_whitespace": leading and trailing whitespace is removed
strip(s) == rstrip(lstrip(s))

\* the strings the model feeds to the repository
H_s1 == <<"s", "1">>

H_s1_padded == <<" ", "s", "1">>

H_s2 == <<"s", "2">>

H_blank == <<" ">>

S_dc1 == <<"d", "c", "1">>

S_dc2 == <<"d", "c", "2">>

\* DevicePlatform and DeviceRole
DevicePlatform ==
    { <<"DevicePlatform", v>> : v \in {"ios_xe", "ios_xr", "nxos", "eos", "junos"} }

DeviceRole ==
    { <<"DeviceRole", v>> : v \in {"spine", "leaf", "border", "core", "access", "wan"} }

EOS == <<"DevicePlatform", "eos">>

NXOS == <<"DevicePlatform", "nxos">>

SPINE == <<"DeviceRole", "spine">>

LEAF == <<"DeviceRole", "leaf">>

\* member.value
value(member) == member[2]

\* IPvAnyAddress validation: the text of an address to the address object.
\* "::1" and "0:0:0:0:0:0:0:1" are two texts of the same IPv6 address.
IPTexts == { <<"10.0.0.1">>, <<"::1">>, <<"0:0:0:0:0:0:0:1">> }

ip_address(text) ==
    CASE text[1] = "10.0.0.1" -> <<4, 167772161>>
      [] text[1] = "::1" -> <<6, 1>>
      [] text[1] = "0:0:0:0:0:0:0:1" -> <<6, 1>>

\* str(x) of an address object, or of None: the canonical text
str(x) ==
    CASE x = None -> "None"
      [] x = <<4, 167772161>> -> "10.0.0.1"
      [] x = <<6, 1>> -> "::1"

-----------------------------------------------------------------------------
(* The models: Device, DeviceCreate, DeviceUpdate *)

HostnameMinLength == 1

HostnameMaxLength == 253

SiteMinLength == 1

SiteMaxLength == 100

FieldNames == {"hostname", "management_ip", "platform", "role", "site"}

\* DeviceCreate(**kwargs) raises no ValidationError: every field is required;
\* strings are checked as given (DeviceCreate has no str_strip_whitespace)
DeviceCreate_valid(kwargs) ==
    /\ Len(kwargs.hostname) >= HostnameMinLength
    /\ Len(kwargs.hostname) <= HostnameMaxLength
    /\ kwargs.management_ip \in IPTexts
    /\ kwargs.platform \in DevicePlatform
    /\ kwargs.role \in DeviceRole
    /\ Len(kwargs.site) >= SiteMinLength
    /\ Len(kwargs.site) <= SiteMaxLength

\* the validated creation payload: management_ip is an address object
DeviceCreate(kwargs) ==
    [kwargs EXCEPT !.management_ip = ip_address(kwargs.management_ip)]

\* DeviceUpdate(**kwargs) raises no ValidationError: every field is optional
\* and may be None; a value that is given is checked like DeviceCreate's; a
\* keyword that names no field of the model is ignored
DeviceUpdate_valid(kwargs) ==
    /\ "hostname" \in DOMAIN kwargs /\ kwargs.hostname # None
         => /\ Len(kwargs.hostname) >= HostnameMinLength
            /\ Len(kwargs.hostname) <= HostnameMaxLength
    /\ "management_ip" \in DOMAIN kwargs /\ kwargs.management_ip # None
         => kwargs.management_ip \in IPTexts
    /\ "platform" \in DOMAIN kwargs /\ kwargs.platform # None
         => kwargs.platform \in DevicePlatform
    /\ "role" \in DOMAIN kwargs /\ kwargs.role # None
         => kwargs.role \in DeviceRole
    /\ "site" \in DOMAIN kwargs /\ kwargs.site # None
         => /\ Len(kwargs.site) >= SiteMinLength
            /\ Len(kwargs.site) <= SiteMaxLength

\* the validated update payload: every field of the model, None where none
\* was given, and model_fields_set, the names of the fields that were given
DeviceUpdate(kwargs) ==
    [fields |->
        [f \in FieldNames |->
            IF f \notin DOMAIN kwargs THEN None
            ELSE IF f = "management_ip" /\ kwargs[f] # None
                 THEN ip_address(kwargs[f])
                 ELSE kwargs[f]],
     model_fields_set |-> DOMAIN kwargs \cap FieldNames]

\* update_data.model_dump(), without exclude_unset: the dict of every field
\* of the model, None where none was given
model_dump_all(update_data) == update_data.fields

\* update_data.model_dump(exclude_unset=True): the dict of the fields that
\* were given, those given as None included
model_dump_exclude_unset(update_data) ==
    [f \in update_data.model_fields_set |-> update_data.fields[f]]

\* Device(hostname=..., ...) raises no ValidationError: strings are stripped
\* ("str_strip_whitespace"), then their length is checked
Device_valid(hostname, site) ==
    /\ Len(strip(hostname)) >= HostnameMinLength
    /\ Len(strip(hostname)) <= HostnameMaxLength
    /\ Len(strip(site)) >= SiteMinLength
    /\ Len(strip(site)) <= SiteMaxLength

\* Device(hostname=..., ...): id comes from uuid4(), created_at and updated_at
\* from two readings of datetime.now(); the strings are stored stripped
Device(id, hostname, management_ip, platform, role, site, created_at, updated_at) ==
    [id |-> id,
     hostname |-> strip(hostname),
     management_ip |-> management_ip,
     platform |-> platform,
     role |-> role,
     site |-> strip(site),
     created_at |-> created_at,
     updated_at |-> updated_at]

\* a copy that is built anew, so that created_at is set again, to the time of
\* the update
model_copy_created_anew(existing, updates) ==
    [f \in DOMAIN existing |->
        IF f \in DOMAIN updates THEN updates[f]
        ELSE IF f = "created_at" THEN updates.updated_at
        ELSE existing[f]]

\* existing.model_copy(update=updates): a copy with the given fields
\* replaced, without validation
model_copy(existing, updates) ==
    [f \in DOMAIN existing |->
        IF f \in DOMAIN updates THEN updates[f] ELSE existing[f]]

-----------------------------------------------------------------------------
(* Python dict *)

\* d[k] = v
dict_set(d, k, v) == [x \in DOMAIN d \cup {k} |-> IF x = k THEN v ELSE d[x]]

\* del d[k], for a key d holds
dict_del(d, k) == [x \in DOMAIN d \ {k} |-> d[x]]

\* {}
empty_dict == [x \in {} |-> None]

-----------------------------------------------------------------------------
(* How a call ends *)

\* return v, v a Device
return_device(op, v) == [op |-> op, kind |-> "return", type |-> "Device", value |-> v]

\* return None
return_none(op) == [op |-> op, kind |-> "return", type |-> "NoneType"]

\* return True, return False
return_bool(op, v) == [op |-> op, kind |-> "return", type |-> "bool", value |-> v]

\* raise DuplicateDeviceError(field, value)
DuplicateDeviceError(op, field, v) ==
    [op |-> op, kind |-> "raise", type |-> "DuplicateDeviceError",
     field |-> field, value |-> v]

\* pydantic's ValidationError, raised by Device(...)
ValidationError(op) == [op |-> op, kind |-> "raise", type |-> "ValidationError"]

\* KeyError, raised by del d[k] for a key d does not hold
KeyError(op) == [op |-> op, kind |-> "raise", type |-> "KeyError"]

\* AttributeError, raised by None.value
AttributeError(op) == [op |-> op, kind |-> "raise", type |-> "AttributeError"]

\* return results, a list of Devices, as a set
return_list(op, v) == [op |-> op, kind |-> "return", type |-> "list", value |-> v]

\* datetime.now(): a reading that is not before the latest one. Two readings
\* may be equal.
now(latest) == latest..MaxClock

-----------------------------------------------------------------------------------------------------------------------------------------------------
(* InMemoryDeviceRepository                                                *)
(*                                                                         *)
(* Each method is an operator from self, the repository it is called on    *)
(* (_devices, _hostname_index, _ip_index, and with them the UUIDs handed   *)
(* out and the clock), and its arguments, to its outcome: the repository   *)
(* it leaves and how it ended.                                             *)

\* the repository as it is now
repo ==
    [devices |-> devices,
     hostname_index |-> hostname_index,
     ip_index |-> ip_index,
     next_uuid |-> next_uuid,
     clock |-> clock]

\* a method leaves the repository as s and ends with r
outcome(s, r) ==
    [devices |-> s.devices,
     hostname_index |-> s.hostname_index,
     ip_index |-> s.ip_index,
     next_uuid |-> s.next_uuid,
     clock |-> s.clock,
     ret |-> r]

\* the repository an outcome leaves
left(out) ==
    [devices |-> out.devices,
     hostname_index |-> out.hostname_index,
     ip_index |-> out.ip_index,
     next_uuid |-> out.next_uuid,
     clock |-> out.clock]

\* the callers of the repository
Callers == {"caller1", "caller2"}

\* a caller that is in no call
idle == [pc |-> "idle"]

\* __init__
InitRepository ==
    /\ devices = empty_dict
    /\ hostname_index = empty_dict
    /\ ip_index = empty_dict
    /\ next_uuid = 1
    /\ clock = 0
    /\ ret = return_none("__init__")
    /\ threads = [c \in Callers |-> idle]

\* __init__, with callers that make one call at a time
Init ==
    /\ InitRepository
    /\ exclusive = TRUE

\* add: the hostname is looked up as the payload gives it
add_hostname_taken(self, device_data) ==
    device_data.hostname \in DOMAIN self.hostname_index

\* add without the check for a duplicate IP
add_ip_unchecked(self, device_data) == FALSE

\* add: the IP is looked up by its canonical text
add_ip_taken(self, device_data) ==
    str(device_data.management_ip) \in DOMAIN self.ip_index

\* add: the device is stored and indexed
add_store(self, device) ==
    [self EXCEPT
        !.devices = dict_set(self.devices, device.id, device),
        !.hostname_index = dict_set(self.hostname_index, device.hostname, device.id),
        !.ip_index = dict_set(self.ip_index, str(device.management_ip), device.id),
        !.next_uuid = device.id + 1,
        !.clock = device.updated_at]

\* add with the id taken from the number of devices stored, not from uuid4()
add_id_by_count(self, device_data, created_at, updated_at) ==
    IF add_hostname_taken(self, device_data)
    THEN outcome(self, DuplicateDeviceError("add", "hostname", device_data.hostname))
    ELSE IF add_ip_taken(self, device_data)
    THEN outcome(self, DuplicateDeviceError("add", "management_ip",
                                            str(device_data.management_ip)))
    ELSE IF ~Device_valid(device_data.hostname, device_data.site)
    THEN outcome(self, ValidationError("add"))
    ELSE LET device == Device(Cardinality(DOMAIN self.devices) + 1,
                              device_data.hostname,
                              device_data.management_ip,
                              device_data.platform,
                              device_data.role,
                              device_data.site,
                              created_at, updated_at)
         IN outcome([add_store(self, device) EXCEPT !.next_uuid = self.next_uuid + 1],
                    return_device("add", device))

\* add(device_data), where Device(...) reads datetime.now() as created_at and
\* then as updated_at
add(self, device_data, created_at, updated_at) ==
    IF add_hostname_taken(self, device_data)
    THEN outcome(self, DuplicateDeviceError("add", "hostname", device_data.hostname))
    ELSE IF add_ip_taken(self, device_data)
    THEN outcome(self, DuplicateDeviceError("add", "management_ip",
                                            str(device_data.management_ip)))
    ELSE IF ~Device_valid(device_data.hostname, device_data.site)
    THEN outcome(self, ValidationError("add"))
    ELSE LET device == Device(self.next_uuid,
                              device_data.hostname,
                              device_data.management_ip,
                              device_data.platform,
                              device_data.role,
                              device_data.site,
                              created_at, updated_at)
         IN outcome(add_store(self, device), return_device("add", device))

\* get_by_id(device_id)
get_by_id(self, device_id) ==
    IF device_id \in DOMAIN self.devices
    THEN return_device("get_by_id", self.devices[device_id])
    ELSE return_none("get_by_id")

\* get_by_hostname(hostname)
get_by_hostname(self, hostname) ==
    IF hostname \notin DOMAIN self.hostname_index
    THEN return_none("get_by_hostname")
    ELSE IF self.hostname_index[hostname] \in DOMAIN self.devices
    THEN return_device("get_by_hostname", self.devices[self.hostname_index[hostname]])
    ELSE return_none("get_by_hostname")

\* get_all(): the devices, as a set
get_all(self) == { self.devices[id] : id \in DOMAIN self.devices }

\* update that refuses a hostname the index holds, be it the device's own
update_hostname_taken_by_any(self, existing, updates) ==
    /\ "hostname" \in DOMAIN updates
    /\ updates.hostname \in DOMAIN self.hostname_index

\* update: the hostname changes to one the index holds
update_hostname_taken(self, existing, updates) ==
    /\ "hostname" \in DOMAIN updates
    /\ updates.hostname # existing.hostname
    /\ updates.hostname \in DOMAIN self.hostname_index

\* update without the check for a duplicate IP
update_ip_unchecked(self, existing, updates) == FALSE

\* update: the IP changes to one the index holds
update_ip_taken(self, existing, updates) ==
    /\ "management_ip" \in DOMAIN updates
    /\ str(updates.management_ip) # str(existing.management_ip)
    /\ str(updates.management_ip) \in DOMAIN self.ip_index

\* update with the new hostname indexed and the old entry left in place
update_hostname_index_keeping_old(self, device_id, existing, updated_device) ==
    dict_set(self.hostname_index, updated_device.hostname, device_id)

\* update: the hostname index after "if updated_device.hostname != ..."
update_hostname_index(self, device_id, existing, updated_device) ==
    IF updated_device.hostname # existing.hostname
    THEN dict_set(dict_del(self.hostname_index, existing.hostname),
                  updated_device.hostname, device_id)
    ELSE self.hostname_index

\* update: the IP index after "if str(updated_device.management_ip) != ..."
update_ip_index(self, device_id, existing, updated_device) ==
    IF str(updated_device.management_ip) # str(existing.management_ip)
    THEN dict_set(dict_del(self.ip_index, str(existing.management_ip)),
                  str(updated_device.management_ip), device_id)
    ELSE self.ip_index

\* update that moves the indexes and returns the new record, and leaves the
\* old record in the primary store
update_store_indexes_only(self, device_id, existing, updated_device) ==
    outcome([self EXCEPT
                !.hostname_index =
                    dict_set(self.hostname_index, updated_device.hostname, device_id),
                !.ip_index =
                    dict_set(self.ip_index, str(updated_device.management_ip),
                             device_id)],
            return_device("update", updated_device))

\* update: the indexes are moved, then the device is stored. del raises
\* KeyError for a key the index does not hold, and what was done stays done.
update_store(self, device_id, existing, updated_device) ==
    IF /\ updated_device.hostname # existing.hostname
       /\ existing.hostname \notin DOMAIN self.hostname_index
    THEN outcome(self, KeyError("update"))
    ELSE IF /\ str(updated_device.management_ip) # str(existing.management_ip)
            /\ str(existing.management_ip) \notin DOMAIN self.ip_index
    THEN outcome([self EXCEPT
                    !.hostname_index =
                        update_hostname_index(self, device_id, existing, updated_device)],
                 KeyError("update"))
    ELSE outcome([self EXCEPT
                    !.hostname_index =
                        update_hostname_index(self, device_id, existing, updated_device),
                    !.ip_index =
                        update_ip_index(self, device_id, existing, updated_device),
                    !.devices = dict_set(self.devices, device_id, updated_device)],
                 return_device("update", updated_device))

\* update with the hostname index moved as soon as the hostname has passed
\* its check, before the IP is checked
update_changes_hostname_first(self, device_id, existing, updates, t) ==
    IF update_hostname_taken(self, existing, updates)
    THEN outcome(self, DuplicateDeviceError("update", "hostname", updates.hostname))
    ELSE LET moved ==
                 IF "hostname" \in DOMAIN updates
                    /\ existing.hostname \in DOMAIN self.hostname_index
                 THEN [self EXCEPT
                         !.hostname_index =
                             update_hostname_index(self, device_id, existing,
                                                   model_copy(existing, updates))]
                 ELSE self
         IN IF update_ip_taken(moved, existing, updates)
            THEN outcome(moved, DuplicateDeviceError("update", "management_ip",
                                                     str(updates.management_ip)))
            ELSE update_store([self EXCEPT !.clock = t], device_id, existing,
                              model_copy(existing, updates @@ ("updated_at" :> t)))

\* update, from the duplicate checks on; datetime.now() reads t
update_changes(self, device_id, existing, updates, t) ==
    IF update_hostname_taken(self, existing, updates)
    THEN outcome(self, DuplicateDeviceError("update", "hostname", updates.hostname))
    ELSE IF update_ip_taken(self, existing, updates)
    THEN outcome(self, DuplicateDeviceError("update", "management_ip",
                                            str(updates.management_ip)))
    ELSE update_store([self EXCEPT !.clock = t], device_id, existing,
                      model_copy(existing, updates @@ ("updated_at" :> t)))

\* without the early return for a payload that sets nothing
no_updates_ignored(updates) == FALSE

\* "if not updates"
no_updates(updates) == DOMAIN updates = {}

\* update with the duplicate checks made on the payload before the device
\* is looked up
update_duplicates_first(self, device_id, update_data, t) ==
    LET updates == model_dump_exclude_unset(update_data)
    IN IF "hostname" \in DOMAIN updates
          /\ updates.hostname \in DOMAIN self.hostname_index
       THEN outcome(self, DuplicateDeviceError("update", "hostname", updates.hostname))
       ELSE IF device_id \notin DOMAIN self.devices
       THEN outcome(self, return_none("update"))
       ELSE IF no_updates(updates)
       THEN outcome(self, return_device("update", self.devices[device_id]))
       ELSE update_changes(self, device_id, self.devices[device_id], updates, t)

\* update(device_id, update_data), where datetime.now(), if read, reads t
update(self, device_id, update_data, t) ==
    IF device_id \notin DOMAIN self.devices
    THEN outcome(self, return_none("update"))
    ELSE LET existing == self.devices[device_id]
             updates == model_dump_exclude_unset(update_data)
         IN IF no_updates(updates)
            THEN outcome(self, return_device("update", existing))
            ELSE update_changes(self, device_id, existing, updates, t)

\* delete that leaves the device's entry in the IP index
delete_keeping_ip_index(self, device_id) ==
    IF device_id \notin DOMAIN self.devices
    THEN outcome(self, return_bool("delete", FALSE))
    ELSE IF self.devices[device_id].hostname \notin DOMAIN self.hostname_index
    THEN outcome([self EXCEPT !.devices = dict_del(self.devices, device_id)],
                 KeyError("delete"))
    ELSE outcome([self EXCEPT
                    !.devices = dict_del(self.devices, device_id),
                    !.hostname_index =
                        dict_del(self.hostname_index,
                                 self.devices[device_id].hostname)],
                 return_bool("delete", TRUE))

\* delete(device_id). del raises KeyError for a key the index does not hold,
\* and what was done stays done.
delete(self, device_id) ==
    IF device_id \notin DOMAIN self.devices
    THEN outcome(self, return_bool("delete", FALSE))
    ELSE LET device == self.devices[device_id]
             s1 == [self EXCEPT !.devices = dict_del(self.devices, device_id)]
             s2 == [s1 EXCEPT
                      !.hostname_index = dict_del(self.hostname_index, device.hostname)]
             s3 == [s2 EXCEPT
                      !.ip_index = dict_del(self.ip_index, str(device.management_ip))]
         IN IF device.hostname \notin DOMAIN self.hostname_index
            THEN outcome(s1, KeyError("delete"))
            ELSE IF str(device.management_ip) \notin DOMAIN self.ip_index
            THEN outcome(s2, KeyError("delete"))
            ELSE outcome(s3, return_bool("delete", TRUE))

-----------------------------------------------------------------------------
(* The methods, one check or one round of dictionary writes at a time.     *)
(* A frame is the call a caller is in: the method, its arguments, the line *)
(* it has reached (pc) and its local variables. A step leaves the          *)
(* repository as s; the call goes on in a new frame or ends as r.          *)

\* the call has not ended
running == [kind |-> "running"]

goes_on(s, frame) == [self |-> s, frame |-> frame, ret |-> running]

ends(s, r) == [self |-> s, frame |-> idle, ret |-> r]

\* the frame in which add(device_data) begins
add_frame(device_data) ==
    [op |-> "add", pc |-> "check_hostname", device_data |-> device_data]

\* add, one step: the hostname check, the IP check, Device(...), and the
\* three stores
add_step(self, frame, t) ==
    CASE frame.pc = "check_hostname" ->
            IF add_hostname_taken(self, frame.device_data)
            THEN ends(self, DuplicateDeviceError("add", "hostname",
                                                 frame.device_data.hostname))
            ELSE goes_on(self, [frame EXCEPT !.pc = "check_ip"])
      [] frame.pc = "check_ip" ->
            IF add_ip_taken(self, frame.device_data)
            THEN ends(self, DuplicateDeviceError("add", "management_ip",
                                str(frame.device_data.management_ip)))
            ELSE goes_on(self, [frame EXCEPT !.pc = "construct"])
      [] frame.pc = "construct" ->
            IF ~Device_valid(frame.device_data.hostname, frame.device_data.site)
            THEN ends(self, ValidationError("add"))
            ELSE goes_on([self EXCEPT !.next_uuid = self.next_uuid + 1,
                                      !.clock = t],
                         [op |-> "add", pc |-> "store_device",
                          device |-> Device(self.next_uuid,
                                            frame.device_data.hostname,
                                            frame.device_data.management_ip,
                                            frame.device_data.platform,
                                            frame.device_data.role,
                                            frame.device_data.site,
                                            t, t)])
      [] frame.pc = "store_device" ->
            goes_on([self EXCEPT !.devices =
                        dict_set(self.devices, frame.device.id, frame.device)],
                    [frame EXCEPT !.pc = "store_hostname"])
      [] frame.pc = "store_hostname" ->
            goes_on([self EXCEPT !.hostname_index =
                        dict_set(self.hostname_index, frame.device.hostname,
                                 frame.device.id)],
                    [frame EXCEPT !.pc = "store_ip"])
      [] frame.pc = "store_ip" ->
            ends([self EXCEPT !.ip_index =
                        dict_set(self.ip_index, str(frame.device.management_ip),
                                 frame.device.id)],
                 return_device("add", frame.device))

\* the frame in which delete(device_id) begins
delete_frame(device_id) == [op |-> "delete", pc |-> "get", device_id |-> device_id]

\* delete, one step: the lookup, and the three dels
delete_step(self, frame) ==
    CASE frame.pc = "get" ->
            IF frame.device_id \notin DOMAIN self.devices
            THEN ends(self, return_bool("delete", FALSE))
            ELSE goes_on(self, [op |-> "delete", pc |-> "del_device",
                                device_id |-> frame.device_id,
                                device |-> self.devices[frame.device_id]])
      [] frame.pc = "del_device" ->
            IF frame.device_id \notin DOMAIN self.devices
            THEN ends(self, KeyError("delete"))
            ELSE goes_on([self EXCEPT !.devices =
                            dict_del(self.devices, frame.device_id)],
                         [frame EXCEPT !.pc = "del_hostname"])
      [] frame.pc = "del_hostname" ->
            IF frame.device.hostname \notin DOMAIN self.hostname_index
            THEN ends(self, KeyError("delete"))
            ELSE goes_on([self EXCEPT !.hostname_index =
                            dict_del(self.hostname_index, frame.device.hostname)],
                         [frame EXCEPT !.pc = "del_ip"])
      [] frame.pc = "del_ip" ->
            IF str(frame.device.management_ip) \notin DOMAIN self.ip_index
            THEN ends(self, KeyError("delete"))
            ELSE ends([self EXCEPT !.ip_index =
                            dict_del(self.ip_index, str(frame.device.management_ip))],
                      return_bool("delete", TRUE))

\* the frame in which update(device_id, update_data) begins
update_frame(device_id, update_data) ==
    [op |-> "update", pc |-> "get", device_id |-> device_id,
     update_data |-> update_data]

\* update, one step: the lookup, the hostname check, the IP check, the move
\* of the hostname entry, the move of the IP entry, and the store
update_step(self, frame, t) ==
    CASE frame.pc = "get" ->
            IF frame.device_id \notin DOMAIN self.devices
            THEN ends(self, return_none("update"))
            ELSE IF no_updates(model_dump_exclude_unset(frame.update_data))
            THEN ends(self, return_device("update", self.devices[frame.device_id]))
            ELSE goes_on(self, [op |-> "update", pc |-> "check_hostname",
                                device_id |-> frame.device_id,
                                existing |-> self.devices[frame.device_id],
                                updates |-> model_dump_exclude_unset(frame.update_data)])
      [] frame.pc = "check_hostname" ->
            IF update_hostname_taken(self, frame.existing, frame.updates)
            THEN ends(self, DuplicateDeviceError("update", "hostname",
                                                 frame.updates.hostname))
            ELSE goes_on(self, [frame EXCEPT !.pc = "check_ip"])
      [] frame.pc = "check_ip" ->
            IF update_ip_taken(self, frame.existing, frame.updates)
            THEN ends(self, DuplicateDeviceError("update", "management_ip",
                                                 str(frame.updates.management_ip)))
            ELSE goes_on([self EXCEPT !.clock = t],
                         [op |-> "update", pc |-> "move_hostname",
                          device_id |-> frame.device_id,
                          existing |-> frame.existing,
                          updated_device |->
                            model_copy(frame.existing,
                                       frame.updates @@ ("updated_at" :> t))])
      [] frame.pc = "move_hostname" ->
            IF /\ frame.updated_device.hostname # frame.existing.hostname
               /\ frame.existing.hostname \notin DOMAIN self.hostname_index
            THEN ends(self, KeyError("update"))
            ELSE goes_on([self EXCEPT !.hostname_index =
                            update_hostname_index(self, frame.device_id,
                                frame.existing, frame.updated_device)],
                         [frame EXCEPT !.pc = "move_ip"])
      [] frame.pc = "move_ip" ->
            IF /\ str(frame.updated_device.management_ip)
                    # str(frame.existing.management_ip)
               /\ str(frame.existing.management_ip) \notin DOMAIN self.ip_index
            THEN ends(self, KeyError("update"))
            ELSE goes_on([self EXCEPT !.ip_index =
                            update_ip_index(self, frame.device_id,
                                frame.existing, frame.updated_device)],
                         [frame EXCEPT !.pc = "store_device"])
      [] frame.pc = "store_device" ->
            ends([self EXCEPT !.devices =
                        dict_set(self.devices, frame.device_id, frame.updated_device)],
                 return_device("update", frame.updated_device))

\* one step of the call of the frame
step(self, frame, t) ==
    CASE frame.op = "add" -> add_step(self, frame, t)
      [] frame.op = "update" -> update_step(self, frame, t)
      [] frame.op = "delete" -> delete_step(self, frame)

\* the call of the frame, run from where it is to its end with no other
\* call in between
RECURSIVE run(_, _, _)
run(self, frame, t) ==
    LET next == step(self, frame, t)
    IN IF next.ret.kind = "running"
       THEN run(next.self, next.frame, t)
       ELSE outcome(next.self, next.ret)

\* filter_by: "device.platform.value" or "device.role.value" is evaluated
\* for this device and raises AttributeError, the attribute being None
filter_by_raises(device, platform, role, site) ==
    \/ platform # None /\ device.platform = None
    \/ /\ ~(platform # None /\ <<value(device.platform)>> # platform)
       /\ role # None
       /\ device.role = None

\* filter_by: the device passes every "continue" and is appended
filter_by_matches(device, platform, role, site) ==
    /\ ~(platform # None /\ <<value(device.platform)>> # platform)
    /\ ~(role # None /\ <<value(device.role)>> # role)
    /\ ~(site # None /\ device.site # site)

\* filter_by(platform, role, site): platform and role are given as the text
\* of the enum value in a one-element tuple, site as a str; None, the
\* default, is no criterion
filter_by(self, platform, role, site) ==
    IF \E id \in DOMAIN self.devices :
            filter_by_raises(self.devices[id], platform, role, site)
    THEN AttributeError("filter_by")
    ELSE return_list("filter_by",
            { device \in get_all(self) :
                filter_by_matches(device, platform, role, site) })

\* The four queries as calls: get_by_id, get_by_hostname, get_all and
\* filter_by assign to no attribute of self and write to no dict, so that
\* each leaves the repository as it found it and ends with its result.
\* get_by_id with self._devices.pop(device_id, None) for .get(device_id)
get_by_id_popping(self, device_id) ==
    IF device_id \in DOMAIN self.devices
    THEN outcome([self EXCEPT !.devices = dict_del(self.devices, device_id)],
                 get_by_id(self, device_id))
    ELSE outcome(self, get_by_id(self, device_id))

get_by_id_call(self, device_id) == outcome(self, get_by_id(self, device_id))

get_by_hostname_call(self, hostname) ==
    outcome(self, get_by_hostname(self, hostname))

get_all_call(self) == outcome(self, return_list("get_all", get_all(self)))

filter_by_call(self, platform, role, site) ==
    outcome(self, filter_by(self, platform, role, site))

-----
(* The callers: what they pass to the repository, and the clock *)

\* DeviceCreate(**kwargs) for every kwargs of the set that it accepts
CreatePayloadsOf(kwargs_set) ==
    { DeviceCreate(kwargs) : kwargs \in { k \in kwargs_set : DeviceCreate_valid(k) } }

\* DeviceUpdate(**kwargs) for every kwargs of the set that it accepts
UpdatePayloadsOf(kwargs_set) ==
    { DeviceUpdate(kwargs) : kwargs \in { k \in kwargs_set : DeviceUpdate_valid(k) } }

\* the keyword arguments that give the fields of given, each with one of
\* the values for it
KwargsOver(given, values) ==
    { kwargs \in [given -> UNION { values[f] : f \in given }] :
        \A f \in given : kwargs[f] \in values[f] }

\* hostnames with and without padding, a blank one, and both texts of ::1
CreateKwargs ==
    [hostname : {H_s1, H_s1_padded, H_s2, H_blank},
     management_ip : IPTexts,
     platform : {EOS},
     role : {SPINE},
     site : {S_dc1}]

CreatePayloads == CreatePayloadsOf(CreateKwargs)

\* the values a caller gives for a field of DeviceUpdate
UpdateValues ==
    [f \in FieldNames |->
    CASE f = "hostname" -> {H_s1, H_s2, None}
      [] f = "management_ip" -> { <<"10.0.0.1">>, <<"0:0:0:0:0:0:0:1">>, None }
      [] f = "platform" -> {NXOS, None}
      [] f = "role" -> {LEAF, None}
      [] f = "site" -> {S_dc2, None}]

\* DeviceUpdate with any of hostname and management_ip given
UpdateKwargs ==
    UNION { KwargsOver(given, UpdateValues) :
            given \in SUBSET {"hostname", "management_ip"} }

\* DeviceUpdate with any of hostname, management_ip and site given
AnyUpdateKwargs ==
    UNION { KwargsOver(given, UpdateValues) :
            given \in SUBSET {"hostname", "management_ip", "site"} }

AnyUpdatePayloads == UpdatePayloadsOf(AnyUpdateKwargs)

UpdatePayloads == UpdatePayloadsOf(UpdateKwargs)

\* the values a caller gives where time passes between the calls
TimedUpdateValues ==
    [f \in FieldNames |->
    CASE f = "hostname" -> {H_s1, H_s2}
      [] f = "management_ip" -> { <<"10.0.0.1">>, <<"0:0:0:0:0:0:0:1">> }
      [] f = "platform" -> {NXOS}
      [] f = "role" -> {LEAF}
      [] f = "site" -> {S_dc2}]

TimedUpdateKwargs ==
    UNION { KwargsOver(given, TimedUpdateValues) :
            given \in SUBSET {"hostname", "management_ip"} }

TimedUpdatePayloads == UpdatePayloadsOf(TimedUpdateKwargs)

\* two devices that differ in hostname, IP and role
FilterCreateKwargs ==
    { [hostname |-> H_s1, management_ip |-> <<"10.0.0.1">>,
       platform |-> EOS, role |-> SPINE, site |-> S_dc1],
      [hostname |-> H_s2, management_ip |-> <<"::1">>,
       platform |-> EOS, role |-> LEAF, site |-> S_dc1] }

FilterCreatePayloads == CreatePayloadsOf(FilterCreateKwargs)

\* DeviceUpdate with any of platform and site given, platform also as None
FilterUpdateValues ==
    [f \in FieldNames |->
    CASE f = "hostname" -> {H_s1}
      [] f = "management_ip" -> { <<"10.0.0.1">> }
      [] f = "platform" -> {NXOS, None}
      [] f = "role" -> {LEAF, None}
      [] f = "site" -> {S_dc2}]

FilterUpdateKwargs ==
    UNION { KwargsOver(given, FilterUpdateValues) :
            given \in SUBSET {"platform", "role", "site"} }

FilterUpdatePayloads == UpdatePayloadsOf(FilterUpdateKwargs)

\* the criteria a caller gives to filter_by, None for one it omits
PlatformCriteria == { None, <<"eos">>, <<"nxos">>, <<"junos">> }

RoleCriteria == { None, <<"spine">>, <<"leaf">>, <<"wan">> }

SiteCriteria == { None, S_dc1, S_dc2, <<"d", "c", "9">> }

\* the call ends: the state and the outcome are what the method left
Ends(out) ==
    /\ devices' = out.devices
    /\ hostname_index' = out.hostname_index
    /\ ip_index' = out.ip_index
    /\ next_uuid' = out.next_uuid
    /\ clock' = out.clock
    /\ ret' = out.ret
    /\ UNCHANGED <<threads, exclusive>>

\* uuid4() has a UUID left to hand out
CanAdd == next_uuid \in UUIDs

\* add, with both readings of the clock the same
AddCall == \E device_data \in CreatePayloads :
    /\ CanAdd
    /\ Ends(add(repo, device_data, clock, clock))

UpdateCall == \E device_id \in UUIDs : \E update_data \in UpdatePayloads :
    /\ update_data.model_fields_set \subseteq FieldNames
    /\ Ends(update(repo, device_id, update_data, clock))

DeleteCall == \E device_id \in UUIDs :
    /\ device_id \in UUIDs
    /\ Ends(delete(repo, device_id))

\* add, with the clock read twice
TimedAddCall == \E device_data \in CreatePayloads : \E updated_at \in now(clock) :
    /\ CanAdd
    /\ Ends(add(repo, device_data, clock, updated_at))

TimedUpdateCall == \E device_id \in UUIDs : \E update_data \in TimedUpdatePayloads :
    /\ update_data.model_fields_set \subseteq FieldNames
    /\ Ends(update(repo, device_id, update_data, clock))

\* the hostnames a caller looks up
LookupHostnames == {H_s1, H_s1_padded, H_s2}

\* the queries
GetByIdCall == \E device_id \in UUIDs :
    /\ device_id \in UUIDs
    /\ Ends(get_by_id_call(repo, device_id))

GetByHostnameCall == \E hostname \in LookupHostnames :
    /\ hostname \in LookupHostnames
    /\ Ends(get_by_hostname_call(repo, hostname))

GetAllCall ==
    /\ threads = [c \in Callers |-> idle]
    /\ Ends(get_all_call(repo))

FilterByCall == \E platform \in PlatformCriteria : \E role \in RoleCriteria :
    \E site \in SiteCriteria :
        /\ platform \in PlatformCriteria
        /\ Ends(filter_by_call(repo, platform, role, site))

\* add of one of the two devices
FilterAddCall == \E device_data \in FilterCreatePayloads :
    /\ CanAdd
    /\ Ends(add(repo, device_data, clock, clock))

\* update of platform, role and site
FilterUpdateCall == \E device_id \in UUIDs : \E update_data \in FilterUpdatePayloads :
    /\ update_data.model_fields_set \subseteq FieldNames
    /\ Ends(update(repo, device_id, update_data, clock))

\* one device, which both callers add
ConcurrentCreateKwargs ==
    [hostname : {H_s1},
     management_ip : { <<"10.0.0.1">> },
     platform : {EOS},
     role : {SPINE},
     site : {S_dc1}]

ConcurrentCreatePayloads == CreatePayloadsOf(ConcurrentCreateKwargs)

\* the rename to another hostname
ConcurrentUpdateKwargs == { [hostname |-> H_s2] }

ConcurrentUpdatePayloads == UpdatePayloadsOf(ConcurrentUpdateKwargs)

\* no caller excludes another
never_excluded(c) == FALSE

\* the callers make one call at a time: none begins a call while another
\* caller is in one
excluded(c) ==
    exclusive /\ \E other \in Callers \ {c} : threads[other].pc # "idle"

\* the adds of the other callers that have not yet called uuid4()
adds_before_uuid4(c) ==
    { other \in Callers \ {c} :
        threads[other].pc \in {"check_hostname", "check_ip", "construct"}
        /\ threads[other].op = "add" }

\* the caller's call has made a step
Steps(c, next) ==
    /\ devices' = next.self.devices
    /\ hostname_index' = next.self.hostname_index
    /\ ip_index' = next.self.ip_index
    /\ next_uuid' = next.self.next_uuid
    /\ clock' = next.self.clock
    /\ ret' = IF next.ret.kind = "running" THEN ret ELSE next.ret
    /\ threads' = [threads EXCEPT ![c] = next.frame]
    /\ UNCHANGED exclusive

\* a caller calls add and makes its first step
AddBegins == \E c \in Callers : \E device_data \in ConcurrentCreatePayloads :
    /\ threads[c].pc = "idle"
    /\ ~excluded(c)
    /\ next_uuid + Cardinality(adds_before_uuid4(c)) \in 1..MaxConcurrentIds
    /\ Steps(c, step(repo, add_frame(device_data), clock))

\* a caller calls update and makes its first step
UpdateBegins == \E c \in Callers : \E device_id \in 1..MaxConcurrentIds :
    \E update_data \in ConcurrentUpdatePayloads :
        /\ threads[c].pc = "idle"
        /\ ~excluded(c)
        /\ Steps(c, step(repo, update_frame(device_id, update_data), clock))

\* a caller calls delete and makes its first step
DeleteBegins == \E c \in Callers : \E device_id \in 1..MaxConcurrentIds :
    /\ threads[c].pc = "idle"
    /\ ~excluded(c)
    /\ Steps(c, step(repo, delete_frame(device_id), clock))

\* a caller's call makes its next step
CallGoesOn == \E c \in Callers :
    /\ threads[c].pc # "idle"
    /\ Steps(c, step(repo, threads[c], clock))

\* time passes between two calls
Tick ==
    /\ clock < MaxClock
    /\ clock' = clock + 1
    /\ UNCHANGED <<devices, hostname_index, ip_index, next_uuid, ret, threads, exclusive>>

\* The calls, all within one reading of the clock
Next == AddCall \/ UpdateCall \/ DeleteCall

Spec == Init /\ [][Next]_vars

\* The calls, with time passing
TimedNext == TimedAddCall \/ TimedUpdateCall \/ DeleteCall \/ Tick

TimedSpec == Init /\ [][TimedNext]_vars

\* __init__, with callers that may or may not exclude one another
ConcurrentInit ==
    /\ InitRepository
    /\ exclusive \in BOOLEAN

\* The calls of two callers, a step at a time
ConcurrentNext == AddBegins \/ UpdateBegins \/ DeleteBegins \/ CallGoesOn

ConcurrentSpec == ConcurrentInit /\ [][ConcurrentNext]_vars

\* The calls and the queries, all within one reading of the clock
QueryNext ==
    \/ AddCall \/ UpdateCall \/ DeleteCall
    \/ GetByIdCall \/ GetByHostnameCall \/ GetAllCall \/ FilterByCall

QuerySpec == Init /\ [][QueryNext]_vars

\* The calls that set what filter_by reads
FilterNext == FilterAddCall \/ FilterUpdateCall \/ DeleteCall

FilterSpec == Init /\ [][FilterNext]_vars

-----------------------------------------------------------------------------
(* What the claims speak of *)

\* the primary store and both indexes of a repository or of an outcome
containers(s) == <<s.devices, s.hostname_index, s.ip_index>>

\* some stored device has this hostname
HostnameStored(hostname) ==
    \E id \in DOMAIN devices : devices[id].hostname = hostname

\* some stored device has an IP of this canonical text
IPStored(ip_str) ==
    \E id \in DOMAIN devices : str(devices[id].management_ip) = ip_str

\* the call returned a Device
ReturnsDevice(r) == r.kind = "return" /\ r.type = "Device"

\* the call raised DuplicateDeviceError(field, v)
RaisesDuplicate(r, field, v) ==
    /\ r.type = "DuplicateDeviceError"
    /\ r.field = field
    /\ r.value = v

\* the latest call was op and returned a Device
Returned(op) == ret.op = op /\ ReturnsDevice(ret)

\* the latest call was op and raised DuplicateDeviceError on field
RaisedDuplicate(op, field) ==
    /\ ret.op = op
    /\ ret.type = "DuplicateDeviceError"
    /\ ret.field = field

\* DeviceUpdate(): no field given
EmptyUpdate == DeviceUpdate(<<>>)

-----------------------------------------------------------------------------
(* C1: the hostname index has exactly one entry per stored device, from its
   hostname to its id; the IP index has exactly one entry per stored device,
   from the canonical text of its IP to its id; no entry of either index
   names an id that is not stored. *)
C1_IndexesInLockstep ==
    /\ \A id \in DOMAIN devices :
        /\ devices[id].hostname \in DOMAIN hostname_index
        /\ hostname_index[devices[id].hostname] = id
        /\ str(devices[id].management_ip) \in DOMAIN ip_index
        /\ ip_index[str(devices[id].management_ip)] = id
    /\ Cardinality(DOMAIN hostname_index) = Cardinality(DOMAIN devices)
    /\ Cardinality(DOMAIN ip_index) = Cardinality(DOMAIN devices)
    /\ \A h \in DOMAIN hostname_index : hostname_index[h] \in DOMAIN devices
    /\ \A a \in DOMAIN ip_index : ip_index[a] \in DOMAIN devices

(* C2: no two stored devices have the same hostname. *)
C2_HostnamesUnique ==
    \A i, j \in DOMAIN devices :
        i # j => devices[i].hostname # devices[j].hostname

(* C3: no two stored devices have IPs of the same canonical text, and add
   refuses a payload whose IP, in whichever text it was given, is the IP of
   a stored device. *)
C3_IPsUnique ==
    /\ \A i, j \in DOMAIN devices :
        i # j => str(devices[i].management_ip) # str(devices[j].management_ip)
    /\ \A kwargs \in CreateKwargs :
        DeviceCreate_valid(kwargs) /\ IPStored(str(ip_address(kwargs.management_ip)))
            => add(repo, DeviceCreate(kwargs), clock, clock).ret.kind = "raise"

\* two devices are stored, and the latest add was refused for its IP, ::1
C3_Witness ==
    /\ Cardinality(DOMAIN devices) = 2
    /\ RaisedDuplicate("add", "management_ip")
    /\ ret.value = "::1"

(* C4: add with a payload whose hostname is the hostname of a stored device
   raises DuplicateDeviceError("hostname", that hostname) and leaves the
   primary store and both indexes as they were. *)
C4_AddStoredHostnameRaises ==
    \A device_data \in CreatePayloads :
        CanAdd /\ HostnameStored(device_data.hostname)
            => LET out == add(repo, device_data, clock, clock)
               IN /\ RaisesDuplicate(out.ret, "hostname", device_data.hostname)
                  /\ containers(out) = containers(repo)

(* C5: add with a payload whose hostname no stored device has, and whose IP
   has the canonical text of a stored device's, raises
   DuplicateDeviceError("management_ip", the canonical text) and leaves the
   primary store and both indexes as they were. *)
C5_AddStoredIPRaises ==
    \A device_data \in CreatePayloads :
        /\ ~HostnameStored(device_data.hostname)
        /\ IPStored(str(device_data.management_ip))
        => LET out == add(repo, device_data, clock, clock)
           IN /\ RaisesDuplicate(out.ret, "management_ip",
                                  str(device_data.management_ip))
              /\ containers(out) = containers(repo)

\* the latest add was refused for its IP, which a stored device has
C5_Witness ==
    /\ RaisedDuplicate("add", "management_ip")
    /\ IPStored(ret.value)
    /\ \E device_data \in CreatePayloads :
        /\ ~HostnameStored(device_data.hostname)
        /\ str(device_data.management_ip) = ret.value

(* C6: add with a payload whose hostname and canonical IP no stored device
   has returns a device; then get_by_id of its id and get_by_hostname of its
   hostname return it, get_all holds it, and every device stored before is
   still returned as it was. *)
C6_AddFreshSucceeds ==
    \A device_data \in CreatePayloads :
        /\ CanAdd
        /\ ~HostnameStored(device_data.hostname)
        /\ ~IPStored(str(device_data.management_ip))
        => LET out == add(repo, device_data, clock, clock)
           IN /\ ReturnsDevice(out.ret)
              /\ get_by_id(left(out), out.ret.value.id)
                    = return_device("get_by_id", out.ret.value)
              /\ get_by_hostname(left(out), out.ret.value.hostname)
                    = return_device("get_by_hostname", out.ret.value)
              /\ out.ret.value \in get_all(left(out))
              /\ \A id \in DOMAIN devices :
                    /\ get_by_id(left(out), id) = get_by_id(repo, id)
                    /\ get_by_hostname(left(out), devices[id].hostname)
                          = get_by_hostname(repo, devices[id].hostname)

(* C7: an update that raises DuplicateDeviceError leaves the primary store
   and both indexes as they were, whatever else its payload sets. *)
C7_UpdateDuplicateChangesNothing ==
    \A device_id \in UUIDs : \A update_data \in AnyUpdatePayloads :
        LET out == update(repo, device_id, update_data, clock)
        IN out.ret.type = "DuplicateDeviceError"
            => containers(out) = containers(repo)

\* the latest update was refused for its IP, and some payload that is
\* refused for its IP here also sets the hostname to one that is free
C7_Witness ==
    /\ RaisedDuplicate("update", "management_ip")
    /\ \E device_id \in DOMAIN devices : \E update_data \in UpdatePayloads :
        /\ update_data.model_fields_set = {"hostname", "management_ip"}
        /\ update_data.fields.hostname \notin DOMAIN hostname_index
        /\ RaisesDuplicate(update(repo, device_id, update_data, clock).ret,
                           "management_ip", ret.value)

(* C8: a successful update with a payload that sets a field returns a record
   whose updated_at is greater than the stored record's was, whatever the
   clock reads. *)
C8_UpdatedAtIncreases ==
    \A device_id \in DOMAIN devices : \A update_data \in AnyUpdatePayloads :
        LET out == update(repo, device_id, update_data, clock)
        IN update_data.model_fields_set # {} /\ ReturnsDevice(out.ret)
            => out.ret.value.updated_at > devices[device_id].updated_at

(* C9: a successful update keeps id and created_at: the record stored under
   the id afterwards, which is the one returned, has the id and the
   created_at of the record stored before. *)
C9_UpdateKeepsIdAndCreatedAt ==
    \A device_id \in DOMAIN devices : \A update_data \in AnyUpdatePayloads :
        LET out == update(repo, device_id, update_data, clock)
        IN ReturnsDevice(out.ret)
            => /\ out.devices[device_id] = out.ret.value
               /\ out.ret.value.id = devices[device_id].id
               /\ out.ret.value.id = device_id
               /\ out.ret.value.created_at = devices[device_id].created_at

\* the latest update returned a record it wrote after the record was created
C9_Witness ==
    /\ Returned("update")
    /\ ret.value.id \in DOMAIN devices
    /\ devices[ret.value.id] = ret.value
    /\ ret.value.created_at < ret.value.updated_at
    /\ ret.value.updated_at = clock

(* C10: update with a payload that sets no field, on a stored id, returns the
   stored record, updated_at included, and leaves the primary store and both
   indexes as they were; doing it again gives the same. *)
C10_EmptyUpdateIsNoOp ==
    \A device_id \in DOMAIN devices :
        LET out == update(repo, device_id, EmptyUpdate, clock)
        IN /\ out.ret = return_device("update", devices[device_id])
           /\ containers(out) = containers(repo)
           /\ \A t \in now(clock) :
                update(left(out), device_id, EmptyUpdate, t) = out

\* an update returned a stored record whose updated_at is before the clock's
\* reading, and that is what the empty update returns here
C10_Witness ==
    /\ Returned("update")
    /\ ret.value.updated_at < clock
    /\ ret.value.id \in DOMAIN devices
    /\ update(repo, ret.value.id, EmptyUpdate, clock).ret = ret

(* C11: a successful update builds the record by overlay: every field the
   payload does not set has the value it had in the stored record, and every
   field the payload sets has the payload's value. *)
C11_UpdateOverlays ==
    \A device_id \in DOMAIN devices : \A update_data \in AnyUpdatePayloads :
        LET out == update(repo, device_id, update_data, clock)
        IN ReturnsDevice(out.ret)
            => \A f \in FieldNames :
                /\ f \notin update_data.model_fields_set
                    => out.ret.value[f] = devices[device_id][f]
                /\ f \in update_data.model_fields_set
                    => out.ret.value[f] = update_data.fields[f]

\* the latest update returned the record it stored, with the hostname its
\* payload set, None, which no add gives, and with an IP, which it kept; and
\* an update that sets the site alone succeeds on this record
C11_Witness ==
    /\ Returned("update")
    /\ ret.value.id \in DOMAIN devices
    /\ devices[ret.value.id] = ret.value
    /\ ret.value.hostname = None
    /\ ret.value.management_ip # None
    /\ ReturnsDevice(update(repo, ret.value.id,
                            DeviceUpdate([site |-> S_dc2]), clock).ret)

(* C12: update ignores None: a field the payload holds as None, whether it
   was omitted or given as None, is left as it was in the stored device, and
   so are the entries of the hostname index and of the IP index. *)
C12_UpdateIgnoresNone ==
    \A device_id \in DOMAIN devices : \A update_data \in AnyUpdatePayloads :
        LET out == update(repo, device_id, update_data, clock)
        IN out.ret.kind = "return"
            => /\ \A f \in FieldNames :
                    update_data.fields[f] = None
                        => out.devices[device_id][f] = devices[device_id][f]
               /\ update_data.fields.hostname = None
                    => out.hostname_index = hostname_index
               /\ update_data.fields.management_ip = None
                    => out.ip_index = ip_index

(* C13: update of an id that is not stored returns None, raises nothing and
   changes nothing, whatever the payload, also when the payload's hostname
   or IP is one a stored device has. *)
C13_UpdateUnknownReturnsNone ==
    \A device_id \in UUIDs \ DOMAIN devices : \A update_data \in AnyUpdatePayloads :
        update(repo, device_id, update_data, clock)
            = outcome(repo, return_none("update"))

\* the latest update returned None, and here the update of an id that is not
\* stored, with the hostname and the IP of a stored device, returns None
C13_Witness ==
    /\ ret = return_none("update")
    /\ \E device_id \in UUIDs \ DOMAIN devices : \E id \in DOMAIN devices :
        \E update_data \in UpdatePayloads :
            /\ update_data.model_fields_set = {"hostname", "management_ip"}
            /\ update_data.fields.hostname = devices[id].hostname
            /\ update_data.fields.management_ip = devices[id].management_ip
            /\ update(repo, device_id, update_data, clock).ret = ret

(* C14: after a successful update that changes a device's hostname from H
   to H2, get_by_hostname(H) returns None and get_by_hostname(H2) returns
   the updated record, under the same id; after one that changes its IP,
   the IP index holds the new canonical text for the id and no longer the
   old one, so that no later add is refused for the old IP. *)
C14_UpdateMovesIndexEntries ==
    \A device_id \in DOMAIN devices : \A update_data \in AnyUpdatePayloads :
        LET existing == devices[device_id]
            out == update(repo, device_id, update_data, clock)
        IN ReturnsDevice(out.ret)
            => /\ out.ret.value.hostname # existing.hostname
                    => /\ get_by_hostname(left(out), existing.hostname)
                            = return_none("get_by_hostname")
                       /\ get_by_hostname(left(out), out.ret.value.hostname)
                            = return_device("get_by_hostname", out.ret.value)
                       /\ out.ret.value.id = device_id
               /\ str(out.ret.value.management_ip) # str(existing.management_ip)
                    => /\ str(existing.management_ip) \notin DOMAIN out.ip_index
                       /\ str(out.ret.value.management_ip) \in DOMAIN out.ip_index
                       /\ out.ip_index[str(out.ret.value.management_ip)] = device_id
                       /\ \A device_data \in CreatePayloads :
                            str(device_data.management_ip) = str(existing.management_ip)
                                => add(left(out), device_data, clock, clock).ret.type
                                        # "DuplicateDeviceError"
                                   \/ add(left(out), device_data, clock, clock).ret.field
                                        # "management_ip"

\* the latest update returned the record it stored, which get_by_hostname
\* returns for its hostname; and an update that changes both its hostname
\* and its IP succeeds on this record
C14_Witness ==
    /\ Returned("update")
    /\ get_by_hostname(repo, ret.value.hostname)
            = return_device("get_by_hostname", ret.value)
    /\ \E update_data \in UpdatePayloads :
        LET out == update(repo, ret.value.id, update_data, clock)
        IN /\ ReturnsDevice(out.ret)
           /\ out.ret.value.hostname # ret.value.hostname
           /\ out.ret.value.hostname # None
           /\ str(out.ret.value.management_ip) # str(ret.value.management_ip)
           /\ ret.value.management_ip # None

(* C15: delete of an id that is not stored returns False and changes
   nothing; delete of a stored id returns True, and afterwards get_by_id of
   the id and get_by_hostname of the device's hostname return None, neither
   index holds an entry for the id, and every other device, with its entry
   in each index, is as it was. *)
C15_DeleteRemovesOneDevice ==
    \A device_id \in UUIDs :
        LET out == delete(repo, device_id)
        IN IF device_id \notin DOMAIN devices
           THEN out = outcome(repo, return_bool("delete", FALSE))
           ELSE /\ out.ret = return_bool("delete", TRUE)
                /\ get_by_id(left(out), device_id) = return_none("get_by_id")
                /\ get_by_hostname(left(out), devices[device_id].hostname)
                        = return_none("get_by_hostname")
                /\ \A h \in DOMAIN out.hostname_index :
                        out.hostname_index[h] # device_id
                /\ \A a \in DOMAIN out.ip_index : out.ip_index[a] # device_id
                /\ \A id \in DOMAIN devices \ {device_id} :
                    /\ id \in DOMAIN out.devices
                    /\ out.devices[id] = devices[id]
                    /\ \A h \in DOMAIN hostname_index :
                        hostname_index[h] = id
                            => h \in DOMAIN out.hostname_index
                               /\ out.hostname_index[h] = id
                    /\ \A a \in DOMAIN ip_index :
                        ip_index[a] = id
                            => a \in DOMAIN out.ip_index /\ out.ip_index[a] = id

(* C16: after delete(id) has returned True for a device with hostname H and
   IP A, an add with hostname H and IP A returns a device, and the id of
   that device is not the deleted id. *)
C16_DeleteThenAddSucceeds ==
    \A device_id \in DOMAIN devices :
        LET out == delete(repo, device_id)
        IN out.ret = return_bool("delete", TRUE) /\ CanAdd
            => \A device_data \in CreatePayloads :
                /\ device_data.hostname = devices[device_id].hostname
                /\ device_data.management_ip = devices[device_id].management_ip
                => LET again == add(left(out), device_data, clock, clock)
                   IN /\ ReturnsDevice(again.ret)
                      /\ again.ret.value.id # device_id
                      /\ again.ret.value.hostname = devices[device_id].hostname
                      /\ again.ret.value.management_ip
                            = devices[device_id].management_ip

\* the first device is gone, the second, which the latest add returned, is
\* the only one stored, and deleting it and adding it again would succeed
C16_Witness ==
    /\ Returned("add")
    /\ ret.value.id = 2
    /\ DOMAIN devices = {2}
    /\ CanAdd
    /\ delete(repo, 2).ret = return_bool("delete", TRUE)
    /\ \E device_data \in CreatePayloads :
        /\ device_data.hostname = devices[2].hostname
        /\ device_data.management_ip = devices[2].management_ip

(* C17: for every combination of criteria given and omitted,
   filter_by(platform, role, site) returns the devices of get_all() that
   equal every criterion given, which with no criterion are all of
   get_all(); criteria that no device matches give an empty list and raise
   nothing. *)
C17_FilterByIsConjunction ==
    \A platform \in PlatformCriteria : \A role \in RoleCriteria :
        \A site \in SiteCriteria :
            LET results == filter_by(repo, platform, role, site)
            IN /\ results.kind = "return"
               /\ results.value
                    = { device \in get_all(repo) :
                        /\ platform # None => <<value(device.platform)>> = platform
                        /\ role # None => <<value(device.role)>> = role
                        /\ site # None => device.site = site }

\* the device is in the primary store and both indexes name it
StoredTogether(s, device) ==
    /\ device.id \in DOMAIN s.devices
    /\ s.devices[device.id] = device
    /\ device.hostname \in DOMAIN s.hostname_index
    /\ s.hostname_index[device.hostname] = device.id
    /\ str(device.management_ip) \in DOMAIN s.ip_index
    /\ s.ip_index[str(device.management_ip)] = device.id

\* the id is in the primary store no longer, and no index names it
RemovedTogether(s, device_id) ==
    /\ device_id \notin DOMAIN s.devices
    /\ \A h \in DOMAIN s.hostname_index : s.hostname_index[h] # device_id
    /\ \A a \in DOMAIN s.ip_index : s.ip_index[a] # device_id

\* the record is stored under the id, and each key of the record that is
\* not a key of the record it replaces is indexed to the id
ReplacedTogether(s, existing, device) ==
    /\ device.id \in DOMAIN s.devices
    /\ s.devices[device.id] = device
    /\ device.hostname # existing.hostname
        => /\ device.hostname \in DOMAIN s.hostname_index
           /\ s.hostname_index[device.hostname] = device.id
    /\ str(device.management_ip) # str(existing.management_ip)
        => /\ str(device.management_ip) \in DOMAIN s.ip_index
           /\ s.ip_index[str(device.management_ip)] = device.id

(* C18: every add, update and delete is all or nothing: either it returns
   a device, or True, with its change made in the primary store and in both
   indexes, or it ends, returning None or False or raising, with the
   primary store and both indexes as they were. *)
C18_AllOrNothing ==
    /\ \A device_data \in CreatePayloads :
        LET out == add(repo, device_data, clock, clock)
        IN CanAdd
            => IF ReturnsDevice(out.ret)
               THEN StoredTogether(out, out.ret.value)
               ELSE containers(out) = containers(repo)
    /\ \A device_id \in UUIDs : \A update_data \in AnyUpdatePayloads :
        LET out == update(repo, device_id, update_data, clock)
        IN IF ReturnsDevice(out.ret) /\ update_data.model_fields_set # {}
           THEN ReplacedTogether(out, devices[device_id], out.ret.value)
           ELSE containers(out) = containers(repo)
    /\ \A device_id \in UUIDs :
        LET out == delete(repo, device_id)
        IN IF out.ret = return_bool("delete", TRUE)
           THEN RemovedTogether(out, device_id)
           ELSE containers(out) = containers(repo)

(* C19: get_by_hostname(h) returns a stored device whose hostname is h when
   there is one, and None when there is none, as a scan of the primary
   store for hostname h does. *)
C19_GetByHostnameIsScan ==
    \A h \in LookupHostnames :
        LET found == get_by_hostname(repo, h)
        IN IF \E device \in get_all(repo) : device.hostname = h
           THEN /\ ReturnsDevice(found)
                /\ found.value \in get_all(repo)
                /\ found.value.hostname = h
           ELSE found = return_none("get_by_hostname")

\* no caller is in a call
AllIdle == \A c \in Callers : threads[c].pc = "idle"

\* the indexes and the primary store diverge: two stored devices have one
\* hostname or one IP, or a stored device has no entry of its own in an
\* index, or an index entry names no stored device
Diverged == ~(C1_IndexesInLockstep /\ C2_HostnamesUnique)

(* C20: the primary store and the indexes diverge between calls only where
   the callers do not exclude one another: with callers that make one call
   at a time, whenever no call is under way every stored device has its own
   entry in each index and no two have one hostname; without that
   exclusion, calls interleaved check by check and write by write reach a
   state, between calls, in which they diverge. *)
C20_DivergesOnlyUnexcluded ==
    AllIdle /\ Diverged => ~exclusive

\* between calls, without exclusion: two stored devices have the same
\* hostname, and the hostname index has one entry for the two
C20_Witness ==
    /\ AllIdle
    /\ ~exclusive
    /\ Returned("add")
    /\ \E i, j \in DOMAIN devices :
        /\ i # j
        /\ devices[i].hostname = devices[j].hostname
    /\ Cardinality(DOMAIN hostname_index) < Cardinality(DOMAIN devices)

(* C21: get_by_id, get_by_hostname, get_all and filter_by leave the primary
   store and both indexes as they were, whatever their arguments and
   whether or not they find anything. *)
C21_QueriesChangeNothing ==
    /\ \A device_id \in UUIDs :
        containers(get_by_id_call(repo, device_id)) = containers(repo)
    /\ \A hostname \in LookupHostnames :
        containers(get_by_hostname_call(repo, hostname)) = containers(repo)
    /\ containers(get_all_call(repo)) = containers(repo)
    /\ \A platform \in PlatformCriteria : \A role \in RoleCriteria :
        \A site \in SiteCriteria :
            containers(filter_by_call(repo, platform, role, site))
                = containers(repo)

\* the latest call was get_by_id, and the device it returned is stored and
\* indexed as it returned it, beside another device
C21_Witness ==
    /\ ret.op = "get_by_id"
    /\ ReturnsDevice(ret)
    /\ StoredTogether(repo, ret.value)
    /\ Cardinality(DOMAIN devices) = 2

(* C22: after a successful update of an id, the repository shows the
   replacement record for that id and no longer the record it replaced:
   get_by_id(id) returns the new record, get_all() and filter_by() hold the
   new record and not the old one, and get_all() holds one record for each
   stored id. *)
C22_OnlyReplacementExposed ==
    \A device_id \in DOMAIN devices : \A update_data \in AnyUpdatePayloads :
        \A t \in now(clock) :
            LET old == devices[device_id]
                out == update(repo, device_id, update_data, t)
                new == out.ret.value
            IN ReturnsDevice(out.ret) /\ new # old
                => /\ get_by_id(left(out), device_id)
                        = return_device("get_by_id", new)
                   /\ new \in get_all(left(out))
                   /\ old \notin get_all(left(out))
                   /\ \A site \in SiteCriteria :
                        LET results == filter_by(left(out), None, None, site)
                        IN /\ results.kind = "return"
                           /\ old \notin results.value
                           /\ new \in results.value
                                <=> (site = None \/ new.site = site)
                   /\ Cardinality(get_all(left(out)))
                        = Cardinality(DOMAIN out.devices)
                   /\ \A id \in DOMAIN out.devices :
                        Cardinality({ device \in get_all(left(out)) :
                                        device.id = id }) = 1

\* the latest update returned a record written after the record it
\* replaced was, and it is what get_by_id and get_all show for its id
C22_Witness ==
    /\ Returned("update")
    /\ ret.value.updated_at > ret.value.created_at
    /\ get_by_id(repo, ret.value.id) = return_device("get_by_id", ret.value)
    /\ { device \in get_all(repo) : device.id = ret.value.id } = {ret.value}
    /\ Cardinality(DOMAIN devices) = 2

(* C23: the hostname is checked before the IP: add with a payload whose
   hostname and whose IP both are those of stored devices raises
   DuplicateDeviceError naming "hostname"; so does update with a payload
   that changes both the hostname and the IP to those of other stored
   devices. *)
C23_HostnameCheckedFirst ==
    /\ \A device_data \in CreatePayloads :
        /\ HostnameStored(device_data.hostname)
        /\ IPStored(str(device_data.management_ip))
        => RaisesDuplicate(add(repo, device_data, clock, clock).ret,
                           "hostname", device_data.hostname)
    /\ \A device_id \in DOMAIN devices : \A update_data \in AnyUpdatePayloads :
        /\ {"hostname", "management_ip"} \subseteq update_data.model_fields_set
        /\ \E other \in DOMAIN devices \ {device_id} :
                devices[other].hostname = update_data.fields.hostname
        /\ \E other \in DOMAIN devices \ {device_id} :
                str(devices[other].management_ip)
                    = str(update_data.fields.management_ip)
        /\ update_data.fields.hostname # devices[device_id].hostname
        /\ str(update_data.fields.management_ip)
                # str(devices[device_id].management_ip)
        => RaisesDuplicate(update(repo, device_id, update_data, clock).ret,
                           "hostname", update_data.fields.hostname)

\* the payload sets the hostname, the IP or both, and nothing else, each to
\* the value the device has
SetsOwnKeys(update_data, device) ==
    /\ update_data.model_fields_set # {}
    /\ update_data.model_fields_set \subseteq {"hostname", "management_ip"}
    /\ \A f \in update_data.model_fields_set :
        update_data.fields[f] = device[f]

(* C24: an update whose payload sets the hostname, the IP or both to the
   values the device already has raises no DuplicateDeviceError: it returns
   a record, leaves both indexes as they were, and stores a record that
   differs from the one before in updated_at at most. *)
C24_UpdateToOwnKeysSucceeds ==
    \A device_id \in DOMAIN devices : \A update_data \in AnyUpdatePayloads :
        \A t \in now(clock) :
            LET existing == devices[device_id]
                out == update(repo, device_id, update_data, t)
            IN SetsOwnKeys(update_data, existing)
                => /\ ReturnsDevice(out.ret)
                   /\ out.hostname_index = hostname_index
                   /\ out.ip_index = ip_index
                   /\ out.devices[device_id] = out.ret.value
                   /\ out.ret.value = [existing EXCEPT !.updated_at = t]
                   /\ \A id \in DOMAIN devices \ {device_id} :
                        out.devices[id] = devices[id]

\* the latest update returned a record written after it was created, with
\* the hostname and the IP under which the indexes hold it; and a payload
\* exists that sets both to what they are
C24_Witness ==
    /\ Returned("update")
    /\ ret.value.updated_at > ret.value.created_at
    /\ StoredTogether(repo, ret.value)
    /\ \E update_data \in TimedUpdatePayloads :
        /\ update_data.model_fields_set = {"hostname", "management_ip"}
        /\ SetsOwnKeys(update_data, ret.value)

\* what Device(...) accepts as a device: hostname and site are strings
\* within their lengths, management_ip is an address, platform and role
\* are members of their enums
WellFormed(device) ==
    /\ device.hostname # None
    /\ Len(device.hostname) >= HostnameMinLength
    /\ Len(device.hostname) <= HostnameMaxLength
    /\ device.site # None
    /\ Len(device.site) >= SiteMinLength
    /\ Len(device.site) <= SiteMaxLength
    /\ device.management_ip \in { ip_address(text) : text \in IPTexts }
    /\ device.platform \in DevicePlatform
    /\ device.role \in DeviceRole

(* C25: every stored device is well-formed, whatever payloads DeviceCreate
   and DeviceUpdate accepted on the way, a field given as None among them:
   its hostname and site are non-empty strings, its IP is an address, its
   platform and role are members of their enums; and so filter_by raises
   nothing. *)
C25_StoredDevicesWellFormed ==
    /\ \A device \in get_all(repo) : WellFormed(device)
    /\ \A platform \in PlatformCriteria : \A role \in RoleCriteria :
        \A site \in SiteCriteria :
            filter_by(repo, platform, role, site).kind = "return"

\* the ids that adds have returned so far
Issued == { id \in UUIDs : id < next_uuid }

(* C26: ids are never reused: an id that an add once returned and that is
   no longer stored, as after delete(id) returned True, is not stored in
   any later state, whatever calls follow; every id stored is one an add
   returned; and every add returns an id that no earlier add returned. *)
C26_IdsNeverReused ==
    [][/\ DOMAIN devices \subseteq Issued
       /\ \A id \in Issued :
            id \notin DOMAIN devices => id \notin DOMAIN devices'
       /\ ret'.op = "add" /\ ReturnsDevice(ret') /\ devices' # devices
            => /\ ret'.value.id \notin Issued
               /\ ret'.value.id \in DOMAIN devices']_vars

\* the first two ids are stored no longer, and the latest add returned the
\* third, the only device stored
C26_Witness ==
    /\ Returned("add")
    /\ ret.value.id = 3
    /\ DOMAIN devices = {3}
    /\ Issued = {1, 2, 3}
====
